---- MODULE Spec2Model ----
(***************************************************************************)
(* State-machine model of the kikuboposmachine POS backend: the tenant     *)
(* scoped catalog (categories, products), invoice creation with stock      *)
(* adjustment, and the offline bulk invoice sync.                          *)
(*                                                                         *)
(* The database tables are the variables; every REST handler is one        *)
(* action that models the whole request (permission check, validation,     *)
(* database writes inside their transaction, sync log, response).  The     *)
(* last response is kept in resp, together with a small digest of the      *)
(* request, so that properties of a request can be stated as properties    *)
(* of a step.                                                              *)
(***************************************************************************)
EXTENDS Integers, Sequences, FiniteSets, TLC

VARIABLES
    storeActive,    \* Store.is_active, per store
    categories,     \* Category rows, by primary key
    products,       \* Product rows, by primary key
    invoices,       \* Invoice rows, in insertion order (primary key = index)
    invoiceItems,   \* InvoiceItem rows, in insertion order
    syncLogs,       \* SyncLog rows, in insertion order
    resp,           \* the last response, with a digest of its request
    inflight,       \* the sale requests that are being handled, by worker
    now,            \* timezone.now(), in ticks
    userRows        \* User rows written by create_user and save, in insertion order

dbVars == <<categories, products, invoices, invoiceItems>>
vars == <<storeActive, categories, products, invoices, invoiceItems, syncLogs, resp, inflight,
         now, userRows>>

----------------------------------------------------------------------------
(* Bounds of the model *)

MaxStock == 2       \* stock of a product at setup and after a product update
MaxQty == 2         \* largest quantity of a sale line
MaxItems == 2       \* most lines of one sale
MaxBatch == 2       \* most records of one bulk sync request
MaxLogs == 2        \* most bulk sync requests of one behaviour
MaxPrice == 2       \* largest unit price of a sale line
MaxDiscount == 3    \* largest discount of a sale
MaxTime == 2        \* last tick of the clock
MaxUsers == 2       \* most User rows of one behaviour

----------------------------------------------------------------------------
(* Tenants, users and keys *)

Stores == {"s1", "s2"}

Users == {"u1", "u2", "u3"}

\* Who sends a request: a user of a store, the superuser, who has neither a
\* store nor a role, or a client without credentials.
Requesters == Users \cup {"admin", "anonymous"}

\* request.user.is_authenticated
IsAuthenticated(u) == u # "anonymous"

\* User.store
UserStore(u) == CASE u = "u3" -> "s2"
                  [] u \in {"u1", "u2"} -> "s1"
                  [] OTHER -> "none"

\* User.role.name
UserRole(u) == CASE u = "u1" -> "salesperson"
                 [] u = "u2" -> "owner"
                 [] u = "u3" -> "manager"
                 [] OTHER -> "none"

Cids == {"c1", "c2"}
Pids == {"p1", "p2"}
CategoryNames == {"a", "b", "c"}
InvoiceNumbers == {"INV-1", "INV-2"}

\* The workers that handle requests at the same time.
Procs == {"r1", "r2"}

\* A worker that handles no request.
Idle == [pc |-> "idle", user |-> "none", number |-> "none", items |-> <<>>]

NoCategory == [exists |-> FALSE, store |-> "none", name |-> "none", is_active |-> FALSE]
NoProduct == [exists |-> FALSE, store |-> "none", stock |-> 0, is_active |-> FALSE,
              created_by |-> "none"]

\* The database tables an invoice request reads and writes, as one value.
CurrentDb == [products |-> products, invoices |-> invoices, invoiceItems |-> invoiceItems]

----------------------------------------------------------------------------
(* Requests *)

\* One sale line of a request body: a product key and a quantity.
Lines == [product : Pids, quantity : 0..MaxQty]

RECURSIVE SeqsUpTo(_, _)
SeqsUpTo(S, n) ==
    IF n = 0 THEN {<<>>}
    ELSE LET shorter == SeqsUpTo(S, n - 1)
         IN shorter \cup {Append(s, x) : s \in {t \in shorter : Len(t) = n - 1}, x \in S}

\* The item lists of a request body: zero to MaxItems lines.
ItemLists == SeqsUpTo(Lines, MaxItems)

\* What a request body may say about the owner of the record it creates.
Bodies == [store : Stores, salesperson : Users]

\* The body of a client that names its own store and user.
OwnBody(u) == [store |-> UserStore(u), salesperson |-> u]

\* The empty response; every handler fills in what it answers.
NoResp == [op |-> "none", user |-> "none", status |-> 0, ids |-> {},
           synced |-> 0, failed |-> 0, details |-> <<>>,
           submitted |-> <<>>, stale |-> FALSE, crashed |-> FALSE,
           report |-> [k \in {} |-> 0]]

----------------------------------------------------------------------------
(* permissions.py *)

\* The answer to a request that a permission class refused: 401 without
\* credentials (the users authenticate with JWT tokens), 403 with them.
PermissionDeniedStatus(u) == IF IsAuthenticated(u) THEN 403 ELSE 401

\* Mutant of CanCreateInvoice: the store's is_active is not looked at.
CanCreateInvoiceAnyStore(u) ==
    /\ IsAuthenticated(u)
    /\ UserStore(u) # "none"
    /\ UserRole(u) \in {"salesperson", "owner", "manager"}

\* CanCreateInvoice.has_permission
CanCreateInvoice(u) ==
    /\ IsAuthenticated(u)
    /\ UserStore(u) # "none"
    /\ storeActive[UserStore(u)]
    /\ UserRole(u) \in {"salesperson", "owner", "manager"}

\* Mutant of CanViewReports: every authenticated user with a role may look.
CanViewReportsAnyRole(u) ==
    /\ IsAuthenticated(u)
    /\ UserRole(u) \in {"salesperson", "owner", "manager"}

\* CanViewReports.has_permission
CanViewReports(u) ==
    /\ IsAuthenticated(u)
    /\ UserRole(u) \in {"owner", "manager"}

----------------------------------------------------------------------------
(* serializers.py: validation of a sale *)

\* The nested item serializer resolves each line's product key with its own
\* query, so every line holds its own Product instance: a copy of the row as
\* it was when the line was validated.
LoadItems(prods, items) ==
    [i \in DOMAIN items |->
        [product |-> items[i].product,
         quantity |-> items[i].quantity,
         found |-> prods[items[i].product].exists,
         instance_stock |-> prods[items[i].product].stock]]

\* Mutant of ItemValidate: the stock availability check is left out.
ItemValidateNoStockCheck(item) ==
    /\ item.found
    /\ ~(item.quantity <= 0)

\* TransactionItemSerializer.validate
ItemValidate(item) ==
    /\ item.found
    /\ ~(item.quantity <= 0)
    /\ ~(item.instance_stock < item.quantity)

\* TransactionSerializer.validate, for a body without discount and amount_paid
TransactionValidate(items) == ~(Len(items) = 0)

\* serializer.is_valid(): the nested items first, then the transaction
SerializerIsValid(items) ==
    /\ \A i \in DOMAIN items : ItemValidate(items[i])
    /\ TransactionValidate(items)

----------------------------------------------------------------------------
(* models.py and serializers.py: the writes of a sale *)

\* Mutant of UniqueViolation: the column is declared without unique=True.
NoUniqueViolation(invs, number) == FALSE

\* Invoice.invoice_number is unique=True: inserting a second row with the same
\* number raises IntegrityError.
UniqueViolation(invs, number) ==
    \E i \in DOMAIN invs : invs[i].invoice_number = number

\* Invoice.objects.create(**validated_data), with store and salesperson as the
\* view passes them to serializer.save()
InsertInvoice(db, store, salesperson, number) ==
    [db EXCEPT !.invoices = Append(@, [invoice_number |-> number,
                                        store |-> store,
                                        salesperson |-> salesperson,
                                        sync_status |-> "SYNCED"])]

\* InvoiceItem.objects.create(invoice=invoice, **item_data)
InsertItem(db, inv, item) ==
    [db EXCEPT !.invoiceItems = Append(@, [invoice |-> inv,
                                            product |-> item.product,
                                            quantity |-> item.quantity])]

\* Mutant of SaveStock: the lines of a sale share one instance of a product, so
\* each line subtracts from what the line before it left.
SaveStockSharedInstance(db, item) ==
    [db EXCEPT !.products[item.product].stock = @ - item.quantity]

\* product.stock -= quantity; product.save(): the line's own instance is
\* decremented and written back as a whole row.
SaveStock(db, item) ==
    [db EXCEPT !.products[item.product].stock = item.instance_stock - item.quantity]

\* The loop over items_data of TransactionSerializer.create, from line i on.
\* dbError: the database raises on the last product.save() of the sale.
RECURSIVE CreateItems(_, _, _, _, _)
CreateItems(db, inv, items, i, dbError) ==
    IF i > Len(items) THEN [db |-> db, raised |-> FALSE, error |-> ""]
    ELSE LET withItem == InsertItem(db, inv, items[i])
         IN IF dbError /\ i = Len(items)
            THEN [db |-> withItem, raised |-> TRUE, error |-> "DatabaseError"]
            ELSE CreateItems(SaveStock(withItem, items[i]), inv, items, i + 1, dbError)

\* TransactionSerializer.create: the sale row, then per line the item row and
\* the stock write.  The result is the database as the writes left it and
\* whether an exception was raised on the way.
SerializerCreate(db, store, salesperson, number, items, dbError) ==
    IF UniqueViolation(db.invoices, number)
    THEN [db |-> db, raised |-> TRUE, error |-> "IntegrityError"]
    ELSE LET withInvoice == InsertInvoice(db, store, salesperson, number)
         IN CreateItems(withInvoice, Len(withInvoice.invoices), items, 1, dbError)

\* Mutant of Atomic: the block runs outside a transaction, its writes stay.
NoRollback(before, run) == run.db

\* transaction.atomic: the writes of a block that raised are rolled back.
Atomic(before, run) == IF run.raised THEN before ELSE run.db

----------------------------------------------------------------------------
(* views.py: InvoiceListCreateView, POST *)

\* Digest of a request body: some line asks for no more than zero, or for more
\* than the product has in stock when the request arrives.
HasStaleLine(prods, items) ==
    \E i \in DOMAIN items :
        \/ items[i].quantity <= 0
        \/ items[i].quantity > prods[items[i].product].stock

\* Mutant of SaveKwarg: the value of the request body wins.
SaveBodyValue(bodyValue, kwarg) == bodyValue

\* serializer.save(**kwargs): a keyword argument of save() replaces what the
\* request body gave for that field.
SaveKwarg(bodyValue, kwarg) == kwarg

\* CreateModelMixin.create with perform_create under @transaction.atomic:
\* serializer.save(store=request.user.store, salesperson=request.user); any
\* exception of the save becomes a ValidationError (400).  body: the store
\* and the salesperson the request body names.
InvoiceCreate(u, body, number, items, dbError) ==
    LET loaded == LoadItems(products, items)
        run == SerializerCreate(CurrentDb, SaveKwarg(body.store, UserStore(u)),
                                SaveKwarg(body.salesperson, u), number, loaded, dbError)
        after == Atomic(CurrentDb, run)
        digest == [NoResp EXCEPT !.op = "invoice_create", !.user = u,
                                 !.submitted = <<number>>,
                                 !.stale = HasStaleLine(products, items)]
    IN IF ~CanCreateInvoice(u)
       THEN /\ resp' = [digest EXCEPT !.status = PermissionDeniedStatus(u)]
            /\ UNCHANGED <<now, userRows, inflight, storeActive, dbVars, syncLogs>>
       ELSE IF ~SerializerIsValid(loaded)
       THEN /\ resp' = [digest EXCEPT !.status = 400]
            /\ UNCHANGED <<now, userRows, inflight, storeActive, dbVars, syncLogs>>
       ELSE /\ products' = after.products
            /\ invoices' = after.invoices
            /\ invoiceItems' = after.invoiceItems
            /\ resp' = [digest EXCEPT !.status = IF run.raised THEN 400 ELSE 201,
                                      !.crashed = run.raised]
            /\ UNCHANGED <<now, userRows, inflight, storeActive, categories, syncLogs>>

----------------------------------------------------------------------------
(* serializers.py: the totals of a sale *)

\* A sale line with its price; amounts are in the smallest unit of the currency.
PricedLines == [quantity : 0..MaxQty, unit_price : (-1)..MaxPrice]

\* sum(item['quantity'] * item.get('unit_price', 0) for item in items), from
\* line i on; create() adds up the same products in its loop
RECURSIVE Subtotal(_, _)
Subtotal(items, i) ==
    IF i > Len(items) THEN 0
    ELSE items[i].quantity * items[i].unit_price + Subtotal(items, i + 1)

\* Mutant of TotalsValidate: the discount is not compared with the subtotal.
TotalsValidateNoCap(items, discount, amount_paid) ==
    /\ ~(Len(items) = 0)
    /\ ~(discount < 0)
    /\ ~(amount_paid < 0)

\* TransactionSerializer.validate
TotalsValidate(items, discount, amount_paid) ==
    /\ ~(Len(items) = 0)
    /\ ~(discount < 0)
    /\ ~(discount > Subtotal(items, 1))
    /\ ~(amount_paid < 0)

\* TransactionSerializer.create: subtotal and total_amount of the new row
CreateTotals(items, discount, amount_paid) ==
    [subtotal |-> Subtotal(items, 1),
     discount |-> discount,
     total_amount |-> Subtotal(items, 1) - discount,
     amount_paid |-> amount_paid]

\* The creation of a sale as far as its amounts go: the lines are validated
\* (a quantity of 0 or less is refused), then the sale, then the totals are
\* computed and stored.  The answer carries the lines and the stored amounts.
PricedTransaction(items, discount, amount_paid) ==
    LET digest == [NoResp EXCEPT !.op = "transaction_totals", !.details = items]
        valid == /\ \A i \in DOMAIN items : ~(items[i].quantity <= 0)
                 /\ TotalsValidate(items, discount, amount_paid)
    IN /\ resp' = IF ~valid
                  THEN [digest EXCEPT !.status = 400]
                  ELSE [digest EXCEPT !.status = 201,
                                      !.report = CreateTotals(items, discount, amount_paid)]
       /\ UNCHANGED <<now, userRows, inflight, storeActive, dbVars, syncLogs>>

----------------------------------------------------------------------------
(* serializers.py: TransactionSerializer on an existing sale *)

\* Mutant of SerializerUpdate: the update is applied to the sale.
SerializerUpdateApplied(db, i, items) ==
    [db |-> [db EXCEPT !.invoices[i].sync_status = "PENDING"],
     raised |-> FALSE, error |-> ""]

\* TransactionSerializer.update: raises before it touches anything.
SerializerUpdate(db, i, items) ==
    [db |-> db, raised |-> TRUE, error |-> "ValidationError"]

\* serializer = TransactionSerializer(instance, data=...); is_valid(); save().
\* i: the existing sale.  A body that does not validate is answered 400 by
\* is_valid, a valid one reaches update().
TransactionUpdate(u, i, items) ==
    LET loaded == LoadItems(products, items)
        run == SerializerUpdate(CurrentDb, i, loaded)
        digest == [NoResp EXCEPT !.op = "transaction_update", !.user = u,
                                 !.submitted = <<i>>,
                                 !.stale = ~SerializerIsValid(loaded)]
    IN /\ i \in DOMAIN invoices
       /\ IF ~SerializerIsValid(loaded)
          THEN /\ resp' = [digest EXCEPT !.status = 400]
               /\ UNCHANGED <<now, userRows, inflight, storeActive, dbVars, syncLogs>>
          ELSE /\ products' = run.db.products
               /\ invoices' = run.db.invoices
               /\ invoiceItems' = run.db.invoiceItems
               /\ resp' = [digest EXCEPT !.status = IF run.raised THEN 400 ELSE 200]
               /\ UNCHANGED <<now, userRows, inflight, storeActive, categories, syncLogs>>

----------------------------------------------------------------------------
(* BulkInvoiceSyncSerializer.save: the per-record loop of the bulk sync *)

\* One record of a batch: validated on its own against the database as the
\* records before it left it, then created inside its own transaction.
\* A record that is invalid or whose creation raises is counted as failed.
ProcessRecord(db, u, rec) ==
    LET loaded == LoadItems(db.products, rec.items)
    IN IF ~SerializerIsValid(loaded)
       THEN [db |-> db, ok |-> FALSE, error |-> "ValidationError"]
       ELSE LET run == SerializerCreate(db, UserStore(u), u, rec.invoice_number,
                                        loaded, rec.dbError)
            IN [db |-> Atomic(db, run), ok |-> ~run.raised, error |-> run.error]

\* The loop over the records of the batch, from record i on.
RECURSIVE SyncLoop(_, _, _, _, _)
SyncLoop(db, u, batch, i, details) ==
    IF i > Len(batch) THEN [db |-> db, details |-> details]
    ELSE LET r == ProcessRecord(db, u, batch[i])
         IN SyncLoop(r.db, u, batch, i + 1,
                     Append(details, [invoice_number |-> batch[i].invoice_number,
                                      lines |-> Len(batch[i].items),
                                      ok |-> r.ok,
                                      error |-> r.error]))

CountOk(details) == Cardinality({i \in DOMAIN details : details[i].ok})

\* serializer.save(): the database after the loop and the result dictionary
BulkSave(db, u, batch) ==
    LET run == SyncLoop(db, u, batch, 1, <<>>)
    IN [db |-> run.db,
        synced |-> CountOk(run.details),
        failed |-> Len(run.details) - CountOk(run.details),
        details |-> run.details]

----------------------------------------------------------------------------
(* views.py: BulkInvoiceSyncView, POST *)

\* SyncLog.objects.create(user=request.user, store=request.user.store,
\* sync_type='invoice', ...)
NewSyncLog(u, status, synced, failed, error) ==
    [user |-> u, store |-> UserStore(u), sync_type |-> "invoice", status |-> status,
     items_synced |-> synced, items_failed |-> failed, error_message |-> error,
     completed_at |-> now]

\* Mutant of ResultSyncLog: the log says 'completed' whatever failed.
ResultSyncLogCompleted(u, result) ==
    NewSyncLog(u, "completed", result.synced, result.failed, "")

\* The log of the try block, written once serializer.save() has returned
ResultSyncLog(u, result) ==
    NewSyncLog(u, IF result.failed = 0 THEN "completed" ELSE "failed",
               result.synced, result.failed, "")

\* Mutant of ExceptionSyncLog: the log carries the counts of the loop.
ExceptionSyncLogWithCounts(u, result, error) ==
    NewSyncLog(u, "failed", result.synced, result.failed, error)

\* The log of the except block: failed, no counts, the message of the exception
ExceptionSyncLog(u, result, error) == NewSyncLog(u, "failed", 0, 0, error)

SubmittedNumbers(batch) == [i \in DOMAIN batch |-> batch[i].invoice_number]

\* BulkInvoiceSyncView.create.  wellFormed: the body passes
\* serializer.is_valid(raise_exception=True).  crash: an unexpected exception
\* is raised inside the try block once the loop has run, at the end of
\* serializer.save() or by the SyncLog.objects.create of the try block; the
\* view is not atomic, so what the records committed stays.
BulkInvoiceSync(u, wellFormed, batch, crash) ==
    LET result == BulkSave(CurrentDb, u, batch)
        digest == [NoResp EXCEPT !.op = "bulk_sync", !.user = u,
                                 !.submitted = SubmittedNumbers(batch)]
    IN IF ~CanCreateInvoice(u)
       THEN /\ resp' = [digest EXCEPT !.status = PermissionDeniedStatus(u)]
            /\ UNCHANGED <<now, userRows, inflight, storeActive, dbVars, syncLogs>>
       ELSE IF ~wellFormed
       THEN /\ resp' = [digest EXCEPT !.status = 400]
            /\ UNCHANGED <<now, userRows, inflight, storeActive, dbVars, syncLogs>>
       ELSE /\ Len(syncLogs) < MaxLogs
            /\ products' = result.db.products
            /\ invoices' = result.db.invoices
            /\ invoiceItems' = result.db.invoiceItems
            /\ IF crash
               THEN /\ syncLogs' = Append(syncLogs, ExceptionSyncLog(u, result, "Exception"))
                    /\ resp' = [digest EXCEPT !.status = 500, !.crashed = TRUE]
               ELSE /\ syncLogs' = Append(syncLogs, ResultSyncLog(u, result))
                    /\ resp' = [digest EXCEPT !.status = 200,
                                              !.synced = result.synced,
                                              !.failed = result.failed,
                                              !.details = result.details]
            /\ UNCHANGED <<now, userRows, inflight, storeActive, categories>>

----------------------------------------------------------------------------
(* permissions.py: object permissions *)

\* IsSameStore.has_object_permission, for an object with a store
IsSameStore(u, store) == store = UserStore(u)

\* IsSalespersonOrOwner.has_permission
IsSalespersonOrOwner(u) == UserRole(u) \in {"salesperson", "owner", "manager"}

\* IsSalespersonOrOwner.has_object_permission, for an invoice
IsSalespersonOrOwnerObject(u, inv) ==
    IF UserRole(u) \in {"owner", "manager"} THEN inv.store = UserStore(u)
    ELSE IF UserRole(u) = "salesperson" THEN inv.salesperson = u
    ELSE FALSE

\* GenericAPIView.get_object: the row is looked up in the view's queryset (404)
\* and then checked against the object permissions (403).
GetObject(queryset, key, permitted) ==
    IF key \notin queryset THEN 404
    ELSE IF ~permitted THEN 403
    ELSE 200

----------------------------------------------------------------------------
(* views.py: categories *)

\* Mutant of SoftDelete: the row is removed.
HardDelete(row) == [row EXCEPT !.exists = FALSE]

\* perform_destroy: instance.is_active = False; instance.save()
SoftDelete(row) == [row EXCEPT !.is_active = FALSE]

\* Mutant of CategoryListQueryset: the store filter is left out.
CategoryListAllStores(u) ==
    {c \in Cids : categories[c].exists /\ categories[c].is_active}

\* CategoryListCreateView.get_queryset
CategoryListQueryset(u) ==
    {c \in Cids : /\ categories[c].exists
                  /\ categories[c].store = UserStore(u)
                  /\ categories[c].is_active}

\* CategoryDetailView.get_queryset
CategoryDetailQueryset(u) ==
    {c \in Cids : categories[c].exists /\ categories[c].store = UserStore(u)}

\* CategorySerializer.validate_name: no other category, of whatever store, has
\* the name.
CategoryNameValid(name, self) ==
    ~\E c \in Cids \ self : categories[c].exists /\ categories[c].name = name

\* CategoryListCreateView, GET
CategoryList(u) ==
    /\ resp' = [NoResp EXCEPT !.op = "category_list", !.user = u, !.status = 200,
                              !.ids = CategoryListQueryset(u)]
    /\ UNCHANGED <<now, userRows, inflight, storeActive, dbVars, syncLogs>>

\* CategoryListCreateView, POST: perform_create saves with
\* store=request.user.store.  c: the primary key the new row gets.
CategoryCreate(u, c, name, bodyStore) ==
    /\ ~categories[c].exists
    /\ IF ~CategoryNameValid(name, {})
       THEN /\ resp' = [NoResp EXCEPT !.op = "category_create", !.user = u, !.status = 400]
            /\ UNCHANGED <<now, userRows, inflight, storeActive, dbVars, syncLogs>>
       ELSE /\ categories' = [categories EXCEPT ![c] =
                    [exists |-> TRUE, store |-> SaveKwarg(bodyStore, UserStore(u)),
                     name |-> name, is_active |-> TRUE]]
            /\ resp' = [NoResp EXCEPT !.op = "category_create", !.user = u,
                                      !.status = 201, !.ids = {c}]
            /\ UNCHANGED <<now, userRows, inflight, storeActive, products, invoices, invoiceItems, syncLogs>>

\* CategoryDetailView, GET.  c: the primary key of the URL.
CategoryRetrieve(u, c) ==
    LET status == GetObject(CategoryDetailQueryset(u), c, IsSameStore(u, categories[c].store))
    IN /\ resp' = [NoResp EXCEPT !.op = "category_retrieve", !.user = u, !.status = status,
                                 !.submitted = <<c>>,
                                 !.ids = IF status = 200 THEN {c} ELSE {}]
       /\ UNCHANGED <<now, userRows, inflight, storeActive, dbVars, syncLogs>>

\* CategoryDetailView, PUT/PATCH of the name
CategoryUpdate(u, c, name) ==
    LET status == GetObject(CategoryDetailQueryset(u), c, IsSameStore(u, categories[c].store))
    IN IF status # 200
       THEN /\ resp' = [NoResp EXCEPT !.op = "category_update", !.user = u, !.status = status]
            /\ UNCHANGED <<now, userRows, inflight, storeActive, dbVars, syncLogs>>
       ELSE IF ~CategoryNameValid(name, {c})
       THEN /\ resp' = [NoResp EXCEPT !.op = "category_update", !.user = u, !.status = 400]
            /\ UNCHANGED <<now, userRows, inflight, storeActive, dbVars, syncLogs>>
       ELSE /\ categories' = [categories EXCEPT ![c].name = name]
            /\ resp' = [NoResp EXCEPT !.op = "category_update", !.user = u,
                                      !.status = 200, !.ids = {c}]
            /\ UNCHANGED <<now, userRows, inflight, storeActive, products, invoices, invoiceItems, syncLogs>>

\* CategoryDetailView, DELETE: perform_destroy marks the row inactive
CategoryDestroy(u, c) ==
    LET status == GetObject(CategoryDetailQueryset(u), c, IsSameStore(u, categories[c].store))
    IN IF status # 200
       THEN /\ resp' = [NoResp EXCEPT !.op = "category_destroy", !.user = u, !.status = status]
            /\ UNCHANGED <<now, userRows, inflight, storeActive, dbVars, syncLogs>>
       ELSE /\ categories' = [categories EXCEPT ![c] = SoftDelete(@)]
            /\ resp' = [NoResp EXCEPT !.op = "category_destroy", !.user = u,
                                      !.status = 204, !.ids = {c}]
            /\ UNCHANGED <<now, userRows, inflight, storeActive, products, invoices, invoiceItems, syncLogs>>

----------------------------------------------------------------------------
(* views.py: products *)

\* ProductListCreateView.get_queryset, without the low_stock parameter
ProductListQueryset(u) ==
    {p \in Pids : products[p].exists /\ products[p].store = UserStore(u)}

\* ProductDetailView.get_queryset
ProductDetailQueryset(u) ==
    {p \in Pids : products[p].exists /\ products[p].store = UserStore(u)}

\* ProductListCreateView, GET
ProductList(u) ==
    /\ resp' = [NoResp EXCEPT !.op = "product_list", !.user = u, !.status = 200,
                              !.ids = ProductListQueryset(u)]
    /\ UNCHANGED <<now, userRows, inflight, storeActive, dbVars, syncLogs>>

\* ProductListCreateView, POST: perform_create saves with
\* store=request.user.store and created_by=request.user.  p: the primary key
\* the new row gets.
ProductCreate(u, p, stock, body) ==
    /\ ~products[p].exists
    /\ IF stock < 0
       THEN /\ resp' = [NoResp EXCEPT !.op = "product_create", !.user = u, !.status = 400]
            /\ UNCHANGED <<now, userRows, inflight, storeActive, dbVars, syncLogs>>
       ELSE /\ products' = [products EXCEPT ![p] =
                    [exists |-> TRUE, store |-> SaveKwarg(body.store, UserStore(u)),
                     stock |-> stock, is_active |-> TRUE,
                     created_by |-> SaveKwarg(body.salesperson, u)]]
            /\ resp' = [NoResp EXCEPT !.op = "product_create", !.user = u,
                                      !.status = 201, !.ids = {p}]
            /\ UNCHANGED <<now, userRows, inflight, storeActive, categories, invoices, invoiceItems, syncLogs>>

\* ProductDetailView, GET
ProductRetrieve(u, p) ==
    LET status == GetObject(ProductDetailQueryset(u), p, IsSameStore(u, products[p].store))
    IN /\ resp' = [NoResp EXCEPT !.op = "product_retrieve", !.user = u, !.status = status,
                                 !.ids = IF status = 200 THEN {p} ELSE {}]
       /\ UNCHANGED <<now, userRows, inflight, storeActive, dbVars, syncLogs>>

\* ProductDetailView, PUT/PATCH of the stock
ProductUpdate(u, p, stock) ==
    LET status == GetObject(ProductDetailQueryset(u), p, IsSameStore(u, products[p].store))
    IN IF status # 200
       THEN /\ resp' = [NoResp EXCEPT !.op = "product_update", !.user = u, !.status = status]
            /\ UNCHANGED <<now, userRows, inflight, storeActive, dbVars, syncLogs>>
       ELSE IF stock < 0
       THEN /\ resp' = [NoResp EXCEPT !.op = "product_update", !.user = u, !.status = 400]
            /\ UNCHANGED <<now, userRows, inflight, storeActive, dbVars, syncLogs>>
       ELSE /\ products' = [products EXCEPT ![p].stock = stock]
            /\ resp' = [NoResp EXCEPT !.op = "product_update", !.user = u,
                                      !.status = 200, !.ids = {p}]
            /\ UNCHANGED <<now, userRows, inflight, storeActive, categories, invoices, invoiceItems, syncLogs>>

\* ProductDetailView, DELETE: perform_destroy marks the row inactive
ProductDestroy(u, p) ==
    LET status == GetObject(ProductDetailQueryset(u), p, IsSameStore(u, products[p].store))
    IN IF status # 200
       THEN /\ resp' = [NoResp EXCEPT !.op = "product_destroy", !.user = u, !.status = status]
            /\ UNCHANGED <<now, userRows, inflight, storeActive, dbVars, syncLogs>>
       ELSE /\ products' = [products EXCEPT ![p] = SoftDelete(@)]
            /\ resp' = [NoResp EXCEPT !.op = "product_destroy", !.user = u,
                                      !.status = 204, !.ids = {p}]
            /\ UNCHANGED <<now, userRows, inflight, storeActive, categories, invoices, invoiceItems, syncLogs>>

----------------------------------------------------------------------------
(* views.py: reading invoices *)

\* Mutant of InvoiceListQueryset: the salesperson filter is left out.
InvoiceListWholeStore(u) ==
    {i \in DOMAIN invoices : invoices[i].store = UserStore(u)}

\* InvoiceListCreateView.get_queryset, without start_date and end_date
InvoiceListQueryset(u) ==
    {i \in DOMAIN invoices :
        /\ invoices[i].store = UserStore(u)
        /\ UserRole(u) = "salesperson" => invoices[i].salesperson = u}

\* InvoiceDetailView.get_queryset
InvoiceDetailQueryset(u) ==
    {i \in DOMAIN invoices :
        /\ invoices[i].store = UserStore(u)
        /\ UserRole(u) = "salesperson" => invoices[i].salesperson = u}

\* InvoiceListCreateView, GET
InvoiceList(u) ==
    /\ resp' = IF ~CanCreateInvoice(u)
               THEN [NoResp EXCEPT !.op = "invoice_list", !.user = u,
                                   !.status = PermissionDeniedStatus(u)]
               ELSE [NoResp EXCEPT !.op = "invoice_list", !.user = u, !.status = 200,
                                   !.ids = InvoiceListQueryset(u)]
    /\ UNCHANGED <<now, userRows, inflight, storeActive, dbVars, syncLogs>>

\* InvoiceDetailView, GET.  i: the primary key of the URL.
InvoiceRetrieve(u, i) ==
    LET status == IF ~IsSalespersonOrOwner(u) THEN 403
                  ELSE IF i \notin DOMAIN invoices THEN 404
                  ELSE GetObject(InvoiceDetailQueryset(u), i,
                                 IsSalespersonOrOwnerObject(u, invoices[i]))
    IN /\ resp' = [NoResp EXCEPT !.op = "invoice_retrieve", !.user = u, !.status = status,
                                 !.submitted = <<i>>,
                                 !.ids = IF status = 200 THEN {i} ELSE {}]
       /\ UNCHANGED <<now, userRows, inflight, storeActive, dbVars, syncLogs>>

----------------------------------------------------------------------------
(* models.py: the store switch *)

\* Store.is_active is written outside the API of the stores' users.
SetStoreActive(s, active) ==
    /\ storeActive' = [storeActive EXCEPT ![s] = active]
    /\ resp' = [NoResp EXCEPT !.op = "set_store_active"]
    /\ UNCHANGED <<now, userRows, inflight, dbVars, syncLogs>>

----------------------------------------------------------------------------
(* views.py: reports *)

\* Product.low_stock_threshold, default
LowStockThreshold == 10

\* Invoice.objects.filter(store=store, sync_status='SYNCED'), all invoices
\* being of the day of the report
SyncedInvoices(store) ==
    {i \in DOMAIN invoices : invoices[i].store = store /\ invoices[i].sync_status = "SYNCED"}

\* Sum('quantity') over the item rows k..Len(invoiceItems) of product p that
\* belong to the invoices invs
RECURSIVE QuantitySold(_, _, _)
QuantitySold(invs, p, k) ==
    IF k > Len(invoiceItems) THEN 0
    ELSE (IF invoiceItems[k].invoice \in invs /\ invoiceItems[k].product = p
          THEN invoiceItems[k].quantity ELSE 0)
         + QuantitySold(invs, p, k + 1)

\* The data of DashboardStatsView.get
DashboardData(store) ==
    [invoice_count |-> Cardinality(SyncedInvoices(store)),
     active_salespeople |-> Cardinality({invoices[i].salesperson : i \in SyncedInvoices(store)}),
     low_stock_products |-> Cardinality({p \in Pids : /\ products[p].exists
                                                      /\ products[p].store = store
                                                      /\ products[p].is_active
                                                      /\ products[p].stock <= LowStockThreshold})]

\* The data of SalesReportView.get: invoice_count by salesperson
SalesData(store) ==
    [u \in {invoices[i].salesperson : i \in SyncedInvoices(store)} |->
        Cardinality({i \in SyncedInvoices(store) : invoices[i].salesperson = u})]

\* The data of ProductReportView.get: quantity_sold by product
ProductData(store) ==
    [p \in {invoiceItems[k].product :
                k \in {j \in DOMAIN invoiceItems : invoiceItems[j].invoice \in SyncedInvoices(store)}} |->
        QuantitySold(SyncedInvoices(store), p, 1)]

\* APIView.get of a report view, permission_classes = [IsAuthenticated,
\* CanViewReports].  A user without a role makes CanViewReports raise
\* AttributeError (500).  fails: the body of get raises, which the view
\* answers with 500 and no data.
ReportView(op, u, data, fails) ==
    /\ resp' = IF ~IsAuthenticated(u)
               THEN [NoResp EXCEPT !.op = op, !.user = u, !.status = PermissionDeniedStatus(u)]
               ELSE IF UserRole(u) = "none"
               THEN [NoResp EXCEPT !.op = op, !.user = u, !.status = 500]
               ELSE IF ~CanViewReports(u)
               THEN [NoResp EXCEPT !.op = op, !.user = u, !.status = PermissionDeniedStatus(u)]
               ELSE IF fails
               THEN [NoResp EXCEPT !.op = op, !.user = u, !.status = 500]
               ELSE [NoResp EXCEPT !.op = op, !.user = u, !.status = 200, !.report = data]
    /\ UNCHANGED <<now, userRows, inflight, storeActive, dbVars, syncLogs>>

\* DashboardStatsView, GET
DashboardStats(u, fails) == ReportView("dashboard_stats", u, DashboardData(UserStore(u)), fails)

\* SalesReportView, GET
SalesReport(u, fails) == ReportView("sales_report", u, SalesData(UserStore(u)), fails)

\* ProductReportView, GET
ProductReport(u, fails) == ReportView("product_report", u, ProductData(UserStore(u)), fails)

----------------------------------------------------------------------------
(* views.py and serializers.py: invoice creation, step by step *)

\* The request arrives at worker r and the item serializer resolves the
\* product of every line: each line gets its own Product instance, read now.
SaleRead(r, u, number, items) ==
    /\ inflight[r].pc = "idle"
    /\ CanCreateInvoice(u)
    /\ inflight' = [inflight EXCEPT ![r] = [pc |-> "read", user |-> u, number |-> number,
                                            items |-> LoadItems(products, items)]]
    /\ UNCHANGED <<now, userRows, storeActive, dbVars, syncLogs, resp>>

\* serializer.is_valid(): the lines are checked against the instances read.
SaleValidate(r) ==
    /\ inflight[r].pc = "read"
    /\ IF SerializerIsValid(inflight[r].items)
       THEN /\ inflight' = [inflight EXCEPT ![r].pc = "validated"]
            /\ UNCHANGED resp
       ELSE /\ inflight' = [inflight EXCEPT ![r] = Idle]
            /\ resp' = [NoResp EXCEPT !.op = "invoice_create", !.user = inflight[r].user,
                                      !.submitted = <<inflight[r].number>>,
                                      !.stale = TRUE, !.status = 400]
    /\ UNCHANGED <<now, userRows, storeActive, dbVars, syncLogs>>

\* perform_create: the transaction of the sale, committed as a whole.  It
\* writes the stock of the instances read by SaleRead.
SaleWrite(r) ==
    LET req == inflight[r]
        run == SerializerCreate(CurrentDb, UserStore(req.user), req.user, req.number,
                                req.items, FALSE)
        after == Atomic(CurrentDb, run)
    IN /\ req.pc = "validated"
       /\ products' = after.products
       /\ invoices' = after.invoices
       /\ invoiceItems' = after.invoiceItems
       /\ inflight' = [inflight EXCEPT ![r] = Idle]
       /\ resp' = [NoResp EXCEPT !.op = "invoice_create", !.user = req.user,
                                 !.submitted = <<req.number>>,
                                 !.status = IF run.raised THEN 400 ELSE 201,
                                 !.crashed = run.raised]
       /\ UNCHANGED <<now, userRows, storeActive, categories, syncLogs>>

----------------------------------------------------------------------------
(* authentication/models.py: UserManager, User.clean, User.save *)

\* A User instance: the fields clean() and save() look at.  store and role
\* are "none" for a null foreign key.
UserInstance(store, role, is_superuser, is_staff) ==
    [store |-> store, role |-> role, is_superuser |-> is_superuser, is_staff |-> is_staff]

\* User.clean, and with it full_clean of an instance whose other fields are
\* valid: TRUE when a ValidationError is raised.
CleanRaises(user) ==
    \/ /\ ~user.is_superuser
       /\ (user.store = "none" \/ user.role = "none")
    \/ /\ user.store # "none"
       /\ ~storeActive[user.store]

\* User.save: whether full_clean() is called
SaveValidates(user, skip_validation) ==
    /\ ~skip_validation
    /\ ~user.is_superuser /\ ~user.is_staff

\* User.save of an instance: TRUE when it raises and nothing is written.
SaveRaises(user, skip_validation) ==
    SaveValidates(user, skip_validation) /\ CleanRaises(user)

\* The digest of a call on the User model
UserResp(op, user, skip_validation, raised, row) ==
    [NoResp EXCEPT !.op = op,
                   !.status = IF raised THEN 400 ELSE 200,
                   !.crashed = raised,
                   !.ids = IF raised THEN {} ELSE {row},
                   !.report = [store |-> user.store, role |-> user.role,
                               is_superuser |-> user.is_superuser,
                               is_staff |-> user.is_staff,
                               skip_validation |-> skip_validation]]

\* UserManager.create_user(name, email, password, store, role, **extra_fields)
\* with a name and an email; is_superuser and is_staff come in extra_fields
\* and default to FALSE.  user.save(using=self._db) validates.
CreateUser(op, store, role, is_superuser, is_staff) ==
    LET user == UserInstance(store, role, is_superuser, is_staff)
        raised == SaveRaises(user, FALSE)
    IN /\ Len(userRows) < MaxUsers
       /\ userRows' = IF raised THEN userRows ELSE Append(userRows, user)
       /\ resp' = UserResp(op, user, FALSE, raised, Len(userRows) + 1)
       /\ UNCHANGED <<now, inflight, storeActive, dbVars, syncLogs>>

\* UserManager.create_superuser with a password: is_staff and is_superuser
\* are TRUE unless extra_fields gives them ("unset", "true", "false"); no
\* store and no role are passed on.
CreateSuperuser(is_superuser, is_staff) ==
    CreateUser("create_superuser", "none", "none",
               is_superuser # "false", is_staff # "false")

\* The fields of stored user i are assigned and user.save(**kwargs) is called.
UserSave(i, store, role, is_superuser, is_staff, skip_validation) ==
    LET user == UserInstance(store, role, is_superuser, is_staff)
        raised == SaveRaises(user, skip_validation)
    IN /\ i \in DOMAIN userRows
       /\ userRows' = IF raised THEN userRows ELSE [userRows EXCEPT ![i] = user]
       /\ resp' = UserResp("user_save", user, skip_validation, raised, i)
       /\ UNCHANGED <<now, inflight, storeActive, dbVars, syncLogs>>

----------------------------------------------------------------------------
(* views.py: SyncStatusView *)

\* Time passes between two requests.
Tick ==
    /\ now < MaxTime
    /\ now' = now + 1
    /\ resp' = [NoResp EXCEPT !.op = "tick"]
    /\ UNCHANGED <<userRows, inflight, storeActive, dbVars, syncLogs>>

\* Invoice.sync_status is written: the status of a stored invoice becomes one
\* of SYNC_STATUS_CHOICES.
SetSyncStatus(i, status) ==
    /\ i \in DOMAIN invoices
    /\ invoices' = [invoices EXCEPT ![i].sync_status = status]
    /\ resp' = [NoResp EXCEPT !.op = "set_sync_status"]
    /\ UNCHANGED <<now, userRows, inflight, storeActive, categories, products,
                   invoiceItems, syncLogs>>

\* Invoice.objects.filter(salesperson=user, sync_status='PENDING').count()
PendingInvoices(u) ==
    Cardinality({i \in DOMAIN invoices : /\ invoices[i].salesperson = u
                                         /\ invoices[i].sync_status = "PENDING"})

\* last_sync_time of a user without a completed sync
None == -1

\* Mutant of LastSyncQueryset: the status of the log is not looked at.
LastSyncQuerysetAnyStatus(u) == {i \in DOMAIN syncLogs : syncLogs[i].user = u}

\* SyncLog.objects.filter(user=user, status='completed')
LastSyncQueryset(u) ==
    {i \in DOMAIN syncLogs : syncLogs[i].user = u /\ syncLogs[i].status = "completed"}

\* .order_by('-completed_at').first(), then last_sync.completed_at if
\* last_sync else None.  Rows of equal completed_at have the same value.
LastSyncTime(u) ==
    LET rows == LastSyncQueryset(u)
    IN IF rows = {} THEN None
       ELSE LET first == CHOOSE i \in rows :
                            \A j \in rows : syncLogs[i].completed_at >= syncLogs[j].completed_at
            IN syncLogs[first].completed_at

\* The data of the response
SyncStatusData(u) ==
    [pending_invoices |-> PendingInvoices(u),
     last_sync_time |-> LastSyncTime(u),
     sync_status |-> IF PendingInvoices(u) = 0 THEN "online" ELSE "pending"]

\* SyncStatusView.get.  fails: a query raises, the except block answers 500.
SyncStatus(u, fails) ==
    /\ resp' = IF ~IsAuthenticated(u)
               THEN [NoResp EXCEPT !.op = "sync_status", !.user = u,
                                   !.status = PermissionDeniedStatus(u)]
               ELSE IF fails
               THEN [NoResp EXCEPT !.op = "sync_status", !.user = u, !.status = 500]
               ELSE [NoResp EXCEPT !.op = "sync_status", !.user = u, !.status = 200,
                                   !.report = SyncStatusData(u)]
    /\ UNCHANGED <<now, userRows, inflight, storeActive, dbVars, syncLogs>>

----------------------------------------------------------------------------
(* Setup *)

\* The stores are active and hold their products; nothing has been sold.
InitSale ==
    /\ storeActive = [s \in Stores |-> TRUE]
    /\ categories = [c \in Cids |-> NoCategory]
    /\ products \in {[p \in Pids |->
                        [exists |-> TRUE, store |-> IF p = "p1" THEN "s1" ELSE "s2",
                         stock |-> st[p], is_active |-> TRUE,
                         created_by |-> IF p = "p1" THEN "u2" ELSE "u3"]]
                     : st \in [Pids -> 0..MaxStock]}
    /\ invoices = <<>>
    /\ invoiceItems = <<>>
    /\ syncLogs = <<>>
    /\ resp = NoResp
    /\ inflight = [r \in Procs |-> Idle]
    /\ now = 0
    /\ userRows = <<>>

----------------------------------------------------------------------------
(* Invoice creation on its own: one cashier, one invoice number, every body *)

SaleUsers == {"u1"}
SaleNumbers == {"INV-1"}

NextSale ==
    \E u \in SaleUsers, number \in SaleNumbers, items \in ItemLists, dbError \in BOOLEAN :
        InvoiceCreate(u, OwnBody(u), number, items, dbError)

SpecSale == InitSale /\ [][NextSale]_vars

----------------------------------------------------------------------------
(* Bulk sync by one cashier next to invoice creation by a user of the other  *)
(* store, from full shelves                                                 *)

InitSync ==
    /\ InitSale
    /\ \A p \in Pids : products[p].stock = MaxStock

SyncUsers == {"u1"}
CounterUsers == {"u3"}

\* The bodies of the records of a batch: one line each, of a positive quantity
\* of the cashier's own product.
SyncItemLists == {<<l>> : l \in {m \in Lines : m.quantity > 0 /\ m.product = "p1"}}

\* The bodies of the other user's invoices: one line of either product.
CounterItemLists == {<<l>> : l \in {m \in Lines : m.quantity > 0}}

SyncRecords == [invoice_number : InvoiceNumbers, items : SyncItemLists, dbError : BOOLEAN]

Batches == SeqsUpTo(SyncRecords, MaxBatch) \ {<<>>}

NextSync ==
    \/ /\ Len(syncLogs) < MaxLogs
       /\ \E u \in SyncUsers, batch \in Batches : BulkInvoiceSync(u, TRUE, batch, FALSE)
    \/ /\ Len(syncLogs) < MaxLogs
       /\ \E u \in SyncUsers, batch \in {b \in Batches : Len(b) = 1} :
             BulkInvoiceSync(u, TRUE, batch, TRUE)
    \/ \E u \in SyncUsers, batch \in {b \in Batches : Len(b) = 1} :
          BulkInvoiceSync(u, FALSE, batch, FALSE)
    \/ \E u \in CounterUsers, number \in InvoiceNumbers, items \in CounterItemLists :
          InvoiceCreate(u, OwnBody(u), number, items, FALSE)

SpecSync == InitSync /\ [][NextSync]_vars

----------------------------------------------------------------------------
(* The catalog and the invoices of two stores, read and changed by everyone, *)
(* next to the sale of a unit of either product                              *)

\* Both stores have a category and a product, and three invoices have been
\* created: two in store s1, by its cashier and by its owner, one in store s2.
InitCatalog ==
    /\ storeActive = [s \in Stores |-> TRUE]
    /\ categories = [c \in Cids |->
            IF c = "c1" THEN [exists |-> TRUE, store |-> "s1", name |-> "a", is_active |-> TRUE]
            ELSE [exists |-> TRUE, store |-> "s2", name |-> "b", is_active |-> TRUE]]
    /\ products = [p \in Pids |->
            IF p = "p1" THEN [exists |-> TRUE, store |-> "s1", stock |-> MaxStock,
                              is_active |-> TRUE, created_by |-> "u2"]
            ELSE [exists |-> TRUE, store |-> "s2", stock |-> MaxStock,
                  is_active |-> TRUE, created_by |-> "u3"]]
    /\ invoices = << [invoice_number |-> "INV-1", store |-> "s1", salesperson |-> "u1",
                      sync_status |-> "SYNCED"],
                     [invoice_number |-> "INV-2", store |-> "s1", salesperson |-> "u2",
                      sync_status |-> "SYNCED"],
                     [invoice_number |-> "INV-3", store |-> "s2", salesperson |-> "u3",
                      sync_status |-> "SYNCED"] >>
    /\ invoiceItems = << [invoice |-> 1, product |-> "p1", quantity |-> 1],
                         [invoice |-> 2, product |-> "p1", quantity |-> 1],
                         [invoice |-> 3, product |-> "p2", quantity |-> 1] >>
    /\ syncLogs = <<>>
    /\ resp = NoResp
    /\ inflight = [r \in Procs |-> Idle]
    /\ now = 0
    /\ userRows = <<>>

\* The stock a product update sets.
CatalogStocks == {0, MaxStock}

\* The body of a new invoice: one unit of either product.
CatalogItemLists == {<< [product |-> p, quantity |-> 1] >> : p \in Pids}

\* The users who send the requests: the cashier of store s1, the manager of
\* store s2.
CatalogUsers == {"u1", "u3"}

NextCatalog ==
    \/ \E u \in CatalogUsers : CategoryList(u)
    \/ \E u \in CatalogUsers, c \in Cids : CategoryRetrieve(u, c)
    \/ \E u \in CatalogUsers, c \in Cids, name \in CategoryNames : CategoryUpdate(u, c, name)
    \/ \E u \in CatalogUsers, c \in Cids : CategoryDestroy(u, c)
    \/ \E u \in CatalogUsers : ProductList(u)
    \/ \E u \in CatalogUsers, p \in Pids : ProductRetrieve(u, p)
    \/ \E u \in CatalogUsers, p \in Pids, stock \in CatalogStocks : ProductUpdate(u, p, stock)
    \/ \E u \in CatalogUsers, p \in Pids : ProductDestroy(u, p)
    \/ \E u \in CatalogUsers : InvoiceList(u)
    \/ \E u \in CatalogUsers, i \in 1..(Len(invoices) + 1) : InvoiceRetrieve(u, i)
    \/ \E u \in CatalogUsers, items \in CatalogItemLists :
          InvoiceCreate(u, OwnBody(u), "INV-4", items, FALSE)

SpecCatalog == InitCatalog /\ [][NextCatalog]_vars

----------------------------------------------------------------------------
(* Creation from an empty database, with every owner a body can name *)

InitEmpty ==
    /\ storeActive = [s \in Stores |-> TRUE]
    /\ categories = [c \in Cids |-> NoCategory]
    /\ products = [p \in Pids |-> NoProduct]
    /\ invoices = <<>>
    /\ invoiceItems = <<>>
    /\ syncLogs = <<>>
    /\ resp = NoResp
    /\ inflight = [r \in Procs |-> Idle]
    /\ now = 0
    /\ userRows = <<>>

\* One unit of the first product.
OneUnit == {<< [product |-> "p1", quantity |-> 1] >>}

NextCreate ==
    \/ \E u \in Users, name \in CategoryNames, bodyStore \in Stores :
          CategoryCreate(u, "c1", name, bodyStore)
    \/ \E u \in Users, body \in Bodies : ProductCreate(u, "p1", MaxStock, body)
    \/ \E u \in Users, body \in Bodies, items \in OneUnit :
          InvoiceCreate(u, body, "INV-1", items, FALSE)

SpecCreate == InitEmpty /\ [][NextCreate]_vars

----------------------------------------------------------------------------
(* Invoices created and read by the users of both stores *)

NextInvoices ==
    \/ \E u \in Users, number \in InvoiceNumbers, items \in OneUnit :
          InvoiceCreate(u, OwnBody(u), number, items, FALSE)
    \/ \E u \in Users : InvoiceList(u)
    \/ \E u \in Users, i \in 1..(Len(invoices) + 1) : InvoiceRetrieve(u, i)

SpecInvoices == InitSync /\ [][NextInvoices]_vars

----------------------------------------------------------------------------
(* Reports asked for by everyone while invoices are created *)

NextReports ==
    \/ \E u \in Users, number \in InvoiceNumbers, items \in OneUnit :
          InvoiceCreate(u, OwnBody(u), number, items, FALSE)
    \/ \E u \in Requesters, fails \in BOOLEAN : DashboardStats(u, fails)
    \/ \E u \in Requesters, fails \in BOOLEAN : SalesReport(u, fails)
    \/ \E u \in Requesters, fails \in BOOLEAN : ProductReport(u, fails)

SpecReports == InitSync /\ [][NextReports]_vars

----------------------------------------------------------------------------
(* Sales and syncs by everyone while stores are switched off and on *)

\* The batches of this setting: one record of one unit of the first product.
StoreBatches ==
    {<< [invoice_number |-> n, items |-> items, dbError |-> FALSE] >> :
        n \in InvoiceNumbers, items \in OneUnit}

NextStores ==
    \/ \E s \in Stores, active \in BOOLEAN : SetStoreActive(s, active)
    \/ \E u \in Requesters, number \in InvoiceNumbers, items \in OneUnit :
          InvoiceCreate(u, OwnBody(u), number, items, FALSE)
    \/ \E u \in Requesters, batch \in StoreBatches : BulkInvoiceSync(u, TRUE, batch, FALSE)

SpecStores == InitSync /\ [][NextStores]_vars

----------------------------------------------------------------------------
(* Sales created and then sent again as updates *)

NextTransactions ==
    \/ \E u \in SaleUsers, number \in InvoiceNumbers, items \in ItemLists :
          InvoiceCreate(u, OwnBody(u), number, items, FALSE)
    \/ \E u \in SaleUsers, i \in DOMAIN invoices, items \in ItemLists :
          TransactionUpdate(u, i, items)

SpecTransactions == InitSync /\ [][NextTransactions]_vars

----------------------------------------------------------------------------
(* Sales and syncs of several lines, next to stock corrections *)

\* The item lists of this setting: every line is of the first product.
StockItemLists == {l \in ItemLists : \A i \in DOMAIN l : l[i].product = "p1"}

\* The batches of this setting: one record of MaxItems lines.
StockBatches ==
    {<< [invoice_number |-> "INV-2", items |-> items, dbError |-> FALSE] >> :
        items \in {l \in StockItemLists : Len(l) = MaxItems}}

NextStock ==
    \/ \E u \in SaleUsers, number \in SaleNumbers, items \in StockItemLists :
          InvoiceCreate(u, OwnBody(u), number, items, FALSE)
    \/ \E u \in SaleUsers, batch \in StockBatches : BulkInvoiceSync(u, TRUE, batch, FALSE)
    \/ \E u \in SaleUsers, stock \in CatalogStocks : ProductUpdate(u, "p1", stock)

SpecStock == InitSync /\ [][NextStock]_vars

----------------------------------------------------------------------------
(* Two workers that create invoices at the same time *)

\* The bodies of this setting: one line of a positive quantity of the first
\* product.
ConcurrentItemLists == {<<l>> : l \in {m \in Lines : m.quantity > 0 /\ m.product = "p1"}}

NextConcurrent ==
    \/ \E r \in Procs, u \in SaleUsers, number \in InvoiceNumbers, items \in ConcurrentItemLists :
          SaleRead(r, u, number, items)
    \/ \E r \in Procs : SaleValidate(r)
    \/ \E r \in Procs : SaleWrite(r)

SpecConcurrent == InitSync /\ [][NextConcurrent]_vars

----------------------------------------------------------------------------
(* Sales with prices, discounts and payments of every sign *)

NextTotals ==
    \E items \in SeqsUpTo(PricedLines, MaxItems), discount \in (-1)..MaxDiscount,
       amount_paid \in (-1)..1 :
        PricedTransaction(items, discount, amount_paid)

SpecTotals == InitSync /\ [][NextTotals]_vars

----------------------------------------------------------------------------
(* What a step added to the tables *)

NewInvoiceRows == {j \in DOMAIN invoices' : j > Len(invoices)}
NewItemRows == {k \in DOMAIN invoiceItems' : k > Len(invoiceItems)}

\* The rows that were there before the step are still there, unchanged.
RowsKept ==
    /\ Len(invoices') >= Len(invoices)
    /\ Len(invoiceItems') >= Len(invoiceItems)
    /\ \A j \in DOMAIN invoices : invoices'[j] = invoices[j]
    /\ \A k \in DOMAIN invoiceItems : invoiceItems'[k] = invoiceItems[k]

OkRecords(d) == {i \in DOMAIN d : d[i].ok}

\* The i-th record of the details is the Rank-th record that was synced.
Rank(d, i) == Cardinality({j \in OkRecords(d) : j <= i})

RECURSIVE SumQuantity(_, _)
SumQuantity(rows, p) ==
    IF rows = {} THEN 0
    ELSE LET k == CHOOSE x \in rows : TRUE
         IN (IF invoiceItems'[k].product = p THEN invoiceItems'[k].quantity ELSE 0)
            + SumQuantity(rows \ {k}, p)

BulkAnswered == resp'.op = "bulk_sync" /\ resp'.status = 200

----------------------------------------------------------------------------
(* Claims *)

\* C1: a bulk sync is all-or-nothing per invoice.  After a bulk sync that
\* answered with a result, the rows it added are exactly one invoice row per
\* record reported as synced, in order, with that record's number and all of
\* its item rows, and the stock of each product of those rows went down; a
\* record reported as failed left no invoice row, no item row and no stock
\* change, and nothing that was there before was touched.
C1_AllOrNothingPerInvoice ==
    [][BulkAnswered =>
        LET d == resp'.details
        IN /\ RowsKept
           /\ Len(invoices') = Len(invoices) + Cardinality(OkRecords(d))
           /\ \A i \in OkRecords(d) :
                LET row == Len(invoices) + Rank(d, i)
                    items == {k \in NewItemRows : invoiceItems'[k].invoice = row}
                IN /\ invoices'[row].invoice_number = d[i].invoice_number
                   /\ Cardinality(items) = d[i].lines
                   /\ \A k \in items :
                        products'[invoiceItems'[k].product].stock
                            < products[invoiceItems'[k].product].stock
           /\ \A k \in NewItemRows : invoiceItems'[k].invoice \in NewInvoiceRows
           /\ \A p \in Pids :
                products'[p] # products[p]
                    => \E k \in NewItemRows : invoiceItems'[k].product = p
    ]_vars

\* C1 witness: a bulk sync answered in which one record was synced and another
\* one failed with a database error after its first rows had been written.
C1_Witness ==
    /\ resp.op = "bulk_sync" /\ resp.status = 200
    /\ \E i, j \in DOMAIN resp.details :
        /\ resp.details[i].ok
        /\ resp.details[j].error = "DatabaseError"

\* The records of a batch that the details report as synced.
RECURSIVE SyncedOnly(_, _, _)
SyncedOnly(batch, d, i) ==
    IF i > Len(batch) THEN <<>>
    ELSE (IF d[i].ok THEN <<batch[i]>> ELSE <<>>) \o SyncedOnly(batch, d, i + 1)

C3_CountsAddUp ==
    [][BulkAnswered =>
        /\ resp'.synced + resp'.failed = Len(resp'.submitted)
        /\ resp'.synced = Len(invoices') - Len(invoices)
    ]_vars

\* C3 witness: a result with a synced and a failed record.
C3_Witness ==
    /\ resp.op = "bulk_sync" /\ resp.status = 200
    /\ resp.synced = 1 /\ resp.failed = 1

\* C4: after an invoice with line items is created, the stock of every product
\* is lower than before by exactly the total quantity of that product over all
\* of the invoice's items, and unchanged for a product it does not reference.
C4_StockLoweredByTotalQuantity ==
    [][(resp'.op = "invoice_create" /\ resp'.status = 201) =>
        \A p \in Pids :
            products'[p].stock = products[p].stock - SumQuantity(NewItemRows, p)
    ]_vars

\* C5: no two invoices share the same invoice_number.
C5_InvoiceNumbersUnique ==
    \A i, j \in DOMAIN invoices :
        invoices[i].invoice_number = invoices[j].invoice_number => i = j

\* C5 witness: a batch with the same number on both records has been answered,
\* with one record synced and the other one refused by the unique constraint.
C5_Witness ==
    /\ resp.op = "bulk_sync" /\ resp.status = 200
    /\ Len(resp.details) = 2
    /\ resp.details[1].invoice_number = resp.details[2].invoice_number
    /\ resp.details[1].ok
    /\ resp.details[2].error = "IntegrityError"

Numbers(invs) == {invs[j].invoice_number : j \in DOMAIN invs}

C7_StaleLineRejected ==
    [][(resp'.op = "invoice_create" /\ resp'.stale) =>
        /\ resp'.status = 400
        /\ UNCHANGED dbVars
    ]_vars

\* C7 witness: a request with such a line has been refused.
C7_Witness ==
    /\ resp.op = "invoice_create"
    /\ resp.stale
    /\ resp.status = 400

CategoryOps == {"category_list", "category_retrieve", "category_update", "category_destroy"}
ProductOps == {"product_list", "product_retrieve", "product_update", "product_destroy"}
InvoiceReadOps == {"invoice_list", "invoice_retrieve"}

\* What a request exposed and changed is of the store of the user who sent it:
\* the rows the response shows, and every existing category, product and
\* invoice row that differs after the request.
OwnStoreOnly ==
    /\ resp'.op \in CategoryOps =>
            \A c \in resp'.ids : categories'[c].store = UserStore(resp'.user)
    /\ resp'.op \in ProductOps =>
            \A p \in resp'.ids : products'[p].store = UserStore(resp'.user)
    /\ resp'.op \in InvoiceReadOps =>
            \A i \in resp'.ids : invoices'[i].store = UserStore(resp'.user)
    /\ \A c \in Cids :
            categories'[c] # categories[c] =>
                /\ categories[c].store = UserStore(resp'.user)
                /\ categories'[c].store = categories[c].store
    /\ \A p \in Pids :
            products'[p] # products[p] =>
                /\ products[p].store = UserStore(resp'.user)
                /\ products'[p].store = products[p].store
    /\ \A i \in DOMAIN invoices : invoices'[i] = invoices[i]
    /\ \A k \in DOMAIN invoiceItems : invoiceItems'[k] = invoiceItems[k]

C8_ListDetailUpdateDelete ==
    [][resp'.op \in CategoryOps \cup ProductOps \cup InvoiceReadOps => OwnStoreOnly]_vars

\* A list, detail, update or delete request of a user of store s2 was refused
\* with 404 after the product of store s1 was changed by its own users.
C8_ForeignRequestRefused ==
    /\ resp.op = "product_update" /\ resp.user = "u3" /\ resp.status = 404
    /\ products["p1"].stock = 0
    /\ ~products["p1"].is_active
    /\ products["p2"].is_active

\* C9: the store of a created category, product and invoice is the store of
\* the user who created it, whatever the body names, and the salesperson of a
\* created invoice and the created_by of a created product is that user.
C9_OwnerFromUser ==
    [][/\ (resp'.op = "category_create" /\ resp'.status = 201) =>
            \A c \in resp'.ids :
                /\ ~categories[c].exists /\ categories'[c].exists
                /\ categories'[c].store = UserStore(resp'.user)
       /\ (resp'.op = "product_create" /\ resp'.status = 201) =>
            \A p \in resp'.ids :
                /\ ~products[p].exists /\ products'[p].exists
                /\ products'[p].store = UserStore(resp'.user)
                /\ products'[p].created_by = resp'.user
       /\ (resp'.op = "invoice_create" /\ resp'.status = 201) =>
            /\ Len(invoices') = Len(invoices) + 1
            /\ invoices'[Len(invoices')].store = UserStore(resp'.user)
            /\ invoices'[Len(invoices')].salesperson = resp'.user
    ]_vars

\* C9 witness: a category, a product and an invoice have been created, the
\* invoice last, by the manager of store s2.
C9_Witness ==
    /\ resp.op = "invoice_create" /\ resp.status = 201 /\ resp.user = "u3"
    /\ categories["c1"].exists
    /\ products["p1"].exists
    /\ Len(invoices) = 1

\* The invoices a user is to see: those of the user's store, and for a
\* salesperson only the user's own.
VisibleInvoices(u) ==
    IF UserRole(u) = "salesperson"
    THEN {i \in DOMAIN invoices : invoices[i].store = UserStore(u) /\ invoices[i].salesperson = u}
    ELSE {i \in DOMAIN invoices : invoices[i].store = UserStore(u)}

\* C10: the invoice list returns to a salesperson exactly the invoices of the
\* store whose salesperson is that user, and to an owner or manager exactly
\* the invoices of their own store; the invoice detail answers with the
\* invoice if and only if it is one of those.
C10_InvoiceVisibility ==
    /\ (resp.op = "invoice_list" /\ resp.status = 200) =>
            resp.ids = VisibleInvoices(resp.user)
    /\ resp.op = "invoice_retrieve" =>
            /\ resp.status = 200 <=> resp.submitted[1] \in VisibleInvoices(resp.user)
            /\ resp.ids \subseteq VisibleInvoices(resp.user)

\* C10 witness: the salesperson of store s1 listed the invoices while the
\* store holds an invoice of that user and one of the owner.
C10_Witness ==
    /\ resp.op = "invoice_list" /\ resp.user = "u1" /\ resp.status = 200
    /\ resp.ids # {}
    /\ \E i \in DOMAIN invoices : invoices[i].store = "s1" /\ invoices[i].salesperson = "u2"

ReportOps == {"dashboard_stats", "sales_report", "product_report"}

\* C11: reports are for owners and managers only.  Dashboard statistics, the
\* sales report and the product report are answered with data only when the
\* requester is authenticated and has role owner or manager; a salesperson,
\* a user without a role and a request without credentials get no data.
C11_ReportsForOwnersAndManagers ==
    resp.op \in ReportOps =>
        LET allowed == /\ resp.user \in Users
                       /\ UserRole(resp.user) \in {"owner", "manager"}
        IN /\ resp.status = 200 => allowed
           /\ ~allowed => DOMAIN resp.report = {}

\* C11 witness: the salesperson of store s1, who has created an invoice there,
\* asked for the sales report and was refused.
C11_Witness ==
    /\ resp.op = "sales_report" /\ resp.user = "u1" /\ resp.status = 403
    /\ \E i \in DOMAIN invoices : invoices[i].store = "s1" /\ invoices[i].salesperson = "u1"

\* C12: only authenticated users of active stores create invoices.  An
\* invoice creation or bulk sync request of a requester who is not
\* authenticated, has no store, whose store is not active or whose role is
\* not salesperson, owner or manager is refused and writes nothing; no step
\* adds an invoice of a store that is not active.
C12_ActiveStoreOnly ==
    [][/\ resp'.op \in {"invoice_create", "bulk_sync"} =>
            LET u == resp'.user
                permitted == /\ u # "anonymous"
                             /\ UserStore(u) \in Stores
                             /\ storeActive[UserStore(u)]
                             /\ UserRole(u) \in {"salesperson", "owner", "manager"}
            IN ~permitted =>
                    /\ resp'.status \in {401, 403}
                    /\ UNCHANGED <<dbVars, syncLogs>>
       /\ \A i \in DOMAIN invoices' \ DOMAIN invoices : storeActive[invoices'[i].store]
    ]_vars

\* C12 witness: store s1 sold an invoice, was deactivated, and the bulk sync
\* of its cashier was then refused.
C12_Witness ==
    /\ ~storeActive["s1"]
    /\ resp.op = "bulk_sync" /\ resp.user = "u1" /\ resp.status = 403
    /\ \E i \in DOMAIN invoices : invoices[i].store = "s1"

\* C13: every bulk sync request that passes input validation writes exactly
\* one SyncLog, for the requesting user and the user's store, with sync_type
\* 'invoice'; when the request answers with a result, the log's status is
\* 'completed' if and only if the result's failed count is 0 and 'failed'
\* otherwise, and its items_synced and items_failed are the result's counts.
\* A request that does not get that far writes no log.
C13_OneSyncLogPerSync ==
    [][IF resp'.op = "bulk_sync" /\ resp'.status \in {200, 500}
       THEN /\ Len(syncLogs') = Len(syncLogs) + 1
            /\ SubSeq(syncLogs', 1, Len(syncLogs)) = syncLogs
            /\ LET log == syncLogs'[Len(syncLogs')]
               IN /\ log.user = resp'.user
                  /\ log.store = UserStore(resp'.user)
                  /\ log.sync_type = "invoice"
                  /\ resp'.status = 200 =>
                        /\ log.status = "completed" <=> resp'.failed = 0
                        /\ log.status = "failed" <=> resp'.failed # 0
                        /\ log.items_synced = resp'.synced
                        /\ log.items_failed = resp'.failed
       ELSE syncLogs' = syncLogs
    ]_vars

\* C13 witness: a batch of which one record was synced and one failed has been
\* logged as failed with the counts 1 and 1.
C13_Witness ==
    /\ resp.op = "bulk_sync" /\ resp.status = 200
    /\ resp.synced = 1 /\ resp.failed = 1
    /\ syncLogs # <<>>
    /\ syncLogs[Len(syncLogs)].status = "failed"
    /\ syncLogs[Len(syncLogs)].items_synced = 1

\* C20: if the processing of a bulk sync raises an unexpected exception, the
\* request answers with 500 and writes exactly one SyncLog, with status
\* 'failed', items_synced 0, items_failed 0 and the error message; it writes
\* no SyncLog with status 'completed'.
C20_ExceptionLoggedAsFailed ==
    [][(resp'.op = "bulk_sync" /\ resp'.crashed) =>
            /\ resp'.status = 500
            /\ Len(syncLogs') = Len(syncLogs) + 1
            /\ SubSeq(syncLogs', 1, Len(syncLogs)) = syncLogs
            /\ LET log == syncLogs'[Len(syncLogs')]
               IN /\ log.status = "failed"
                  /\ log.items_synced = 0
                  /\ log.items_failed = 0
                  /\ log.error_message # ""
                  /\ log.user = resp'.user
    ]_vars

\* C20 witness: a bulk sync raised after its record had been committed: the
\* answer is 500, the invoice of the record is stored and the log counts 0.
C20_Witness ==
    /\ resp.op = "bulk_sync" /\ resp.crashed /\ resp.status = 500
    /\ \E i \in DOMAIN invoices : invoices[i].invoice_number = resp.submitted[1]
                                  /\ invoices[i].salesperson = resp.user
    /\ syncLogs[Len(syncLogs)].items_synced = 0

C15_UpdateRefused ==
    [][resp'.op = "transaction_update" =>
            /\ resp'.status = 400
            /\ UNCHANGED <<storeActive, dbVars, syncLogs>>
    ]_vars

\* C15 witness: an update whose body is valid was sent for a stored sale and
\* refused.
C15_Witness ==
    /\ resp.op = "transaction_update" /\ resp.status = 400 /\ ~resp.stale
    /\ resp.submitted[1] \in DOMAIN invoices
    /\ \E k \in DOMAIN invoiceItems : invoiceItems[k].invoice = resp.submitted[1]

\* C16: single invoice creation is transactional.  A creation request that
\* does not answer 201 answers with a validation error (400), or is refused
\* by the permission, and leaves no invoice, no invoice item and no stock
\* change; in particular when the creation raised after its first writes.
C16_CreateIsTransactional ==
    [][resp'.op = "invoice_create" =>
            /\ resp'.crashed => resp'.status = 400
            /\ resp'.status # 201 =>
                    /\ resp'.status \in {400, 401, 403}
                    /\ UNCHANGED <<storeActive, dbVars, syncLogs>>
    ]_vars

\* C16 witness: the first creation of a behaviour, with a valid body, raised
\* at its last stock write, after the invoice row and its item rows had been
\* inserted: the answer is 400 and no invoice and no item is stored.
C16_Witness ==
    /\ resp.op = "invoice_create" /\ resp.crashed /\ resp.status = 400
    /\ ~resp.stale
    /\ invoices = <<>>
    /\ invoiceItems = <<>>

\* C17: product stock is never negative.  After any sequence of sale
\* creations, bulk syncs and product updates every product's stock is at
\* least 0, also when one sale has several lines of the same product whose
\* quantities each fit the stock and together exceed it.
C17_StockNeverNegative == \A p \in Pids : products[p].stock >= 0

\* C17 witness: a stored sale has two lines of one product whose quantities
\* together exceed any stock the product can have had.
C17_Witness ==
    \E j, k \in DOMAIN invoiceItems :
        /\ j < k
        /\ invoiceItems[j].invoice = invoiceItems[k].invoice
        /\ invoiceItems[j].product = invoiceItems[k].product
        /\ invoiceItems[j].quantity + invoiceItems[k].quantity > MaxStock

\* C18: stock conservation under concurrency.  When sale creations that sell
\* the same product are handled at the same time, then under every
\* interleaving of their read, validate and write steps the product's stock,
\* once no request is in flight, is its initial stock minus the quantities of
\* all the sales that were persisted.
C18_StockConserved ==
    (\A r \in Procs : inflight[r].pc = "idle") =>
        \A p \in Pids :
            products[p].stock = MaxStock - QuantitySold(DOMAIN invoices, p, 1)

\* The sum of quantity times unit price over the lines of a sale.
RECURSIVE LineSum(_, _)
LineSum(lines, todo) ==
    IF todo = {} THEN 0
    ELSE LET i == CHOOSE x \in todo : TRUE
         IN lines[i].quantity * lines[i].unit_price + LineSum(lines, todo \ {i})

\* C19: totals of a created transaction.  Its subtotal is the sum over its
\* items of quantity times unit price and its total_amount is the subtotal
\* minus the discount; a transaction is accepted only if it has at least one
\* item, 0 <= discount <= subtotal and amount_paid >= 0, so that its
\* total_amount is not negative.
C19_Totals ==
    (resp.op = "transaction_totals" /\ resp.status = 201) =>
        /\ resp.report.subtotal = LineSum(resp.details, DOMAIN resp.details)
        /\ resp.report.total_amount = resp.report.subtotal - resp.report.discount
        /\ Len(resp.details) >= 1
        /\ 0 <= resp.report.discount
        /\ resp.report.discount <= resp.report.subtotal
        /\ resp.report.amount_paid >= 0
        /\ resp.report.total_amount >= 0

\* C19 witness: a sale of two lines, one of them with a negative price, was
\* accepted with a discount equal to its subtotal.
C19_Witness ==
    /\ resp.op = "transaction_totals" /\ resp.status = 201
    /\ Len(resp.details) = 2
    /\ \E i \in DOMAIN resp.details : resp.details[i].unit_price < 0
    /\ resp.report.discount > 0
    /\ resp.report.total_amount = 0

\* Users: accounts are created and saved again, stores are switched off.
GivenStores == Stores \cup {"none"}
GivenRoles == {"none", "salesperson"}

NextUsers ==
    \/ \E store \in GivenStores, role \in GivenRoles, is_superuser, is_staff \in BOOLEAN :
          CreateUser("create_user", store, role, is_superuser, is_staff)
    \/ \E is_superuser, is_staff \in {"unset", "true", "false"} :
          CreateSuperuser(is_superuser, is_staff)
    \/ \E i \in 1..MaxUsers, store \in GivenStores, role \in GivenRoles,
          is_superuser, is_staff, skip_validation \in BOOLEAN :
          UserSave(i, store, role, is_superuser, is_staff, skip_validation)
    \/ \E s \in Stores, active \in BOOLEAN : SetStoreActive(s, active)

SpecUsers == InitSync /\ [][NextUsers]_vars

\* Sync status: two cashiers of one store sync one record at a time, the
\* first of them also two, the clock ticks, invoices become pending.
StatusUsers == {"u1", "u2"}
StatusRecords == {r \in SyncRecords : r.items[1].quantity = 1}
StatusBatches == {<<r>> : r \in StatusRecords}
                    \cup {<<r, q>> : r \in {x \in StatusRecords : ~x.dbError},
                                     q \in {x \in StatusRecords : x.dbError}}

NextStatus ==
    \/ /\ Len(syncLogs) < MaxLogs
       /\ \E u \in StatusUsers, batch \in StatusBatches : BulkInvoiceSync(u, TRUE, batch, FALSE)
    \/ /\ Len(syncLogs) < MaxLogs
       /\ \E u \in StatusUsers, batch \in {b \in StatusBatches : Len(b) = 1} :
             BulkInvoiceSync(u, TRUE, batch, TRUE)
    \/ Tick
    \/ \E i \in DOMAIN invoices, status \in {"PENDING", "SYNCED", "FAILED"} :
          SetSyncStatus(i, status)
    \/ \E u \in Requesters, fails \in BOOLEAN : SyncStatus(u, fails)

SpecStatus == InitSync /\ [][NextStatus]_vars

\* C21: sync logs agree with the data.  Every bulk sync request that writes a
\* SyncLog of type 'invoice' writes one whose items_synced is the number of
\* invoices the request left persisted, also when the request ended in the
\* exception path after records had been committed.
C21_LogAgreesWithData ==
    [][(resp'.op = "bulk_sync" /\ Len(syncLogs') = Len(syncLogs) + 1) =>
            LET log == syncLogs'[Len(syncLogs')]
            IN /\ log.sync_type = "invoice"
               /\ log.items_synced = Len(invoices') - Len(invoices)
    ]_vars

\* C21, the try path alone: a bulk sync that did not raise logs as
\* items_synced the number of invoices it persisted.
C21_ResultLogAgreesWithData ==
    [][(resp'.op = "bulk_sync" /\ ~resp'.crashed
            /\ Len(syncLogs') = Len(syncLogs) + 1) =>
            syncLogs'[Len(syncLogs')].items_synced = Len(invoices') - Len(invoices)
    ]_vars

\* The completed_at of the completed SyncLog of user u that was written last
\* in logs, None when u has none.
MostRecentCompleted(logs, u) ==
    LET done == {i \in DOMAIN logs : logs[i].user = u /\ logs[i].status = "completed"}
    IN IF done = {} THEN None
       ELSE logs[CHOOSE i \in done : \A j \in done : j <= i].completed_at

\* C22: sync status of a user.  The status endpoint answers 'online' if and
\* only if the user has no invoice with sync_status PENDING and 'pending'
\* otherwise; its last_sync_time is the completed_at of the user's most recent
\* SyncLog with status 'completed', None when there is none; a bulk sync in
\* which a record failed, or which raised, advances no user's last_sync_time.
C22_SyncStatus ==
    [][/\ (resp'.op = "sync_status" /\ resp'.status = 200) =>
            LET u == resp'.user
                pending == {i \in DOMAIN invoices : /\ invoices[i].salesperson = u
                                                    /\ invoices[i].sync_status = "PENDING"}
            IN /\ resp'.report.sync_status \in {"online", "pending"}
               /\ resp'.report.sync_status = "online" <=> pending = {}
               /\ resp'.report.pending_invoices = Cardinality(pending)
               /\ resp'.report.last_sync_time = MostRecentCompleted(syncLogs, u)
       /\ (resp'.op = "bulk_sync" /\ (resp'.failed >= 1 \/ resp'.crashed)) =>
            \A u \in Requesters :
                MostRecentCompleted(syncLogs', u) = MostRecentCompleted(syncLogs, u)
    ]_vars

\* C22 witness: a user whose sync completed and whose later sync had a failed
\* record asks for the status while one of the user's invoices is pending: the
\* answer is 'pending' with the time of the first sync, earlier than the
\* completed_at of the failed one.
C22_Witness ==
    /\ resp.op = "sync_status" /\ resp.status = 200
    /\ resp.report.sync_status = "pending"
    /\ resp.report.last_sync_time # None
    /\ \E i \in DOMAIN syncLogs :
            /\ syncLogs[i].user = resp.user
            /\ syncLogs[i].status = "failed"
            /\ syncLogs[i].items_failed >= 1
            /\ syncLogs[i].completed_at > resp.report.last_sync_time

\* C23: regular users must have store and role.  After any sequence of
\* create_user and save calls every stored user that is not a superuser has a
\* store and a role.
C23_RegularUsersHaveStoreAndRole ==
    \A i \in DOMAIN userRows :
        ~userRows[i].is_superuser =>
            userRows[i].store # "none" /\ userRows[i].role # "none"

\* C23, the rejection: a save of a user that is not a superuser without a
\* store, without a role, or with an inactive store raises a validation error
\* and leaves the stored users unchanged.
C23_InvalidSaveRejected ==
    [][(/\ resp'.op \in {"create_user", "create_superuser", "user_save"}
        /\ ~resp'.report.is_superuser
        /\ \/ resp'.report.store = "none"
           \/ resp'.report.role = "none"
           \/ ~storeActive[resp'.report.store]) =>
            /\ resp'.status = 400
            /\ userRows' = userRows
    ]_vars

\* C23 for the saves that validate: the same rejection, for a user that is
\* neither superuser nor staff and a save without skip_validation.
C23_ValidatedSaveRejected ==
    [][(/\ resp'.op \in {"create_user", "create_superuser", "user_save"}
        /\ ~resp'.report.is_superuser
        /\ ~resp'.report.is_staff /\ ~resp'.report.skip_validation
        /\ \/ resp'.report.store = "none"
           \/ resp'.report.role = "none"
           \/ ~storeActive[resp'.report.store]) =>
            /\ resp'.status = 400
            /\ userRows' = userRows
    ]_vars

\* C23: create_user stored a staff account that is not a superuser and has
\* neither store nor role.
C23_StaffWithoutStore ==
    /\ resp.op = "create_user" /\ resp.status = 200
    /\ \E i \in resp.ids :
            /\ ~userRows[i].is_superuser /\ userRows[i].is_staff
            /\ userRows[i].store = "none" /\ userRows[i].role = "none"

====
